---- MODULE Spec2Model ----
(***************************************************************************)
(* Model of the PubChem MCP adapter: the rate limiter and the caching      *)
(* client of pubchem_mcp/utils, the error-normalising request helper of    *)
(* mcp_server/server.py and the request sequences of the tool handlers     *)
(* that use them.  Time is the event-loop clock in integer ticks.          *)
(***************************************************************************)
EXTENDS Integers, Sequences, FiniteSets, TLC

\* ---- bounds of the model ----
NumTasks == 2
MaxCalls == 3
MaxTime == 3
TicksPerSecond == 2
MaxCids == 1

Tasks == 1..NumTasks
None == "None"
\* asyncio.Lock(): the value of lock while no task holds it
Unlocked == 0

\* RateLimiter(calls_per_second): the rates a limiter is constructed with
RateChoices == {1, 2}
\* the request URLs and the cache_key arguments handlers pass ("" is falsy)
Urls == {"u1", "u2"}
\* the (url, cache_key, cache_ttl) arguments of get: the default key, an
\* explicit key that is another URL's default key, the empty key, and a
\* cache_ttl of zero; cache_ttl is in ticks
GetArgs == {<<"u1", None, 2>>, <<"u2", "u1", 2>>, <<"u2", "", 2>>,
            <<"u1", None, 0>>}
\* status codes the upstream can answer with
StatusCodes == {200, 404, 500}
\* more of them, for the handlers that look at the code
ReplyCodes == StatusCodes \cup {204, 400}
\* the JSON body of a reply, as far as a handler looks at it: -2, the body
\* is not JSON; -1, the list the handler reads (IdentifierList.CID,
\* PropertyTable.Properties, InformationList.Information) is missing; n >= 0,
\* the list has n entries
NotJson == 0 - 2
NoList == 0 - 1
\* a 200 body whose outer object is there while the list inside it is not:
\* {"PropertyTable": {}}, {"InformationList": {}}, {"IdentifierList": {}}
NoInner == 0 - 3
Bodies == NotJson..MaxCids
ServerBodies == Bodies \cup {NoInner}

VARIABLES
    now,             \* asyncio.get_event_loop().time()
    calls_per_second,
    min_interval,    \* RateLimiter.min_interval
    last_call_time,  \* RateLimiter.last_call_time
    lock,            \* RateLimiter._lock: the task holding it, or Unlocked
    cache,           \* PubChemClient._cache: a dict, key -> entry
    pc,              \* position of each task
    entry,           \* which function the task runs
    req,             \* arguments of the task's current request
    wakeAt,          \* deadline of the task's asyncio.sleep
    stampAt,         \* the time the task's acquire() wrote to last_call_time
    nAcq,            \* rate_limiter.acquire() calls of the current get
    nGet,            \* client.get calls of the current get
    hit,             \* the current get was answered from the cache
    result,          \* what the current call returned or raised
    stamps,          \* history: successive values written to last_call_time
    wire,            \* history: the HTTP GETs sent upstream: their number,
                     \* when the latest and the one before it were sent,
                     \* and which function sent the latest
    serial,          \* responses produced so far
    calls,           \* calls started so far
    stage,           \* the request a handler is at
    held,            \* the body of the record response a handler holds
    todo,            \* CIDs a handler has still to look up
    found,           \* result lines a handler has collected; in the
                     \* get_compound_details of server.py: props_response
    out,             \* what the handler returned
    reply,           \* what the upstream did to the handler's own GET
    sent,            \* history: which functions sent GETs for which callers
    inp,             \* a handler invocation: its arguments and the upstream's
                     \* replies; threshold in hundredths; self: the rank at
                     \* which the upstream lists the query compound, 0 if none
    ret              \* what that invocation returned or raised

toolVars == <<stage, held, todo, found, out, reply>>

fnVars == <<inp, ret>>

vars == <<now, calls_per_second, min_interval, last_call_time, lock, cache,
          pc, entry, req, wakeAt, stampAt, nAcq, nGet, hit, result, stamps, wire,
          serial, calls, toolVars, sent, fnVars>>

\* url, key, ttl: the arguments of get after cache_key = cache_key or url;
\* id: the number of the call; seen: the serial of the response the lookup
\* found under the key, live or not (0: no entry)
NoReq == [url |-> None, key |-> None, ttl |-> 0, id |-> 0, seen |-> 0]
NoResult == [kind |-> "none", status |-> 0, url |-> None, serial |-> 0,
             body |-> NoList, raised |-> FALSE]
\* an httpx.Response: its status code, the URL it answers, its identity
\* and its body
Response(s, u, n, b) ==
    [kind |-> "response", status |-> s, url |-> u, serial |-> n, body |-> b,
     raised |-> FALSE]
\* an exception raised out of the call (httpx.RequestError and the like)
Raised(e) ==
    [kind |-> e, status |-> 0, url |-> None, serial |-> 0, body |-> NoList,
     raised |-> TRUE]
\* what a handler returns: the fixed head of its text, or the "error" entry
\* of the mapping with the status code it carries
NoOut == [text |-> None, code |-> 0, raised |-> FALSE]
Text(t) == [text |-> t, code |-> 0, raised |-> FALSE]
NoReply == [exc |-> None, status |-> 0, body |-> NoList]
\* no handler invoked yet, nothing returned yet
NoCall ==
    [tool |-> None, arg |-> <<>>, limit |-> 0, replies |-> <<>>,
     threshold |-> 0, self |-> 0]
NoReturn ==
    [kind |-> None, text |-> <<>>, n |-> 0, asked |-> 0,
     note |-> FALSE, shown |-> 0, total |-> 0,
     scores |-> <<>>]

\* cache_key = cache_key or url (ResolveKey_UrlOnly: the key argument ignored)
ResolveKey_UrlOnly(cache_key, url) == url
ResolveKey_Shared(cache_key, url) == "shared"
ResolveKey(cache_key, url) ==
    IF cache_key = None \/ cache_key = "" THEN url ELSE cache_key

\* self.min_interval = 1.0 / calls_per_second
MinIntervalOf(cps) == TicksPerSecond \div cps

Init ==
    /\ now = 0
    /\ calls_per_second \in RateChoices
    /\ min_interval = MinIntervalOf(calls_per_second)
    /\ last_call_time = 0
    /\ lock = Unlocked
    /\ cache = <<>>
    /\ pc = [c \in Tasks |-> "idle"]
    /\ entry = [c \in Tasks |-> None]
    /\ req = [c \in Tasks |-> NoReq]
    /\ wakeAt = [c \in Tasks |-> 0]
    /\ stampAt = [c \in Tasks |-> 0]
    /\ nAcq = [c \in Tasks |-> 0]
    /\ nGet = [c \in Tasks |-> 0]
    /\ hit = [c \in Tasks |-> FALSE]
    /\ result = [c \in Tasks |-> NoResult]
    /\ stamps = <<>>
    /\ wire = [n |-> 0, t |-> 0, prev |-> 0, via |-> None]
    /\ serial = 0
    /\ calls = 0
    /\ stage = [c \in Tasks |-> None]
    /\ held = [c \in Tasks |-> NoList]
    /\ todo = [c \in Tasks |-> 0]
    /\ found = [c \in Tasks |-> 0]
    /\ out = [c \in Tasks |-> NoOut]
    /\ reply = [c \in Tasks |-> NoReply]
    /\ sent = {}
    /\ inp = NoCall
    /\ ret = NoReturn

\* the event-loop clock advances
Tick ==
    /\ UNCHANGED fnVars
    /\ now < MaxTime
    /\ now' = now + 1
    /\ UNCHANGED <<calls_per_second, min_interval, last_call_time, lock, cache,
                   pc, entry, req, wakeAt, stampAt, nAcq, nGet, hit, result, stamps,
                   wire, serial, calls, toolVars, sent>>

\* ---- RateLimiter.acquire ----

\* async with self._lock: the lock can be taken
LockFree_NoLock == TRUE
LockFree == lock = Unlocked

\* asyncio.sleep(self.min_interval - time_since_last_call)
SleepFor_Short(time_since_last_call) == 0
SleepFor(time_since_last_call) == min_interval - time_since_last_call

\* the body of acquire() run by task c once it holds the lock, up to its
\* first suspension: read the clock, then sleep or stamp and release;
\* g is the number of client.get calls the current get has made so far
ReadWaitStamp(c, g) ==
    LET current_time == now
        time_since_last_call == current_time - last_call_time
    IN IF time_since_last_call < min_interval
       THEN /\ lock' = c
            /\ wakeAt' = [wakeAt EXCEPT ![c] = now + SleepFor(time_since_last_call)]
            /\ pc' = [pc EXCEPT ![c] = "sleep"]
            /\ nGet' = [nGet EXCEPT ![c] = g]
            /\ stampAt' = [stampAt EXCEPT ![c] = 0]
            /\ UNCHANGED <<last_call_time, stamps>>
       ELSE /\ last_call_time' = now
            /\ stamps' = Append(stamps, now)
            /\ stampAt' = [stampAt EXCEPT ![c] = now]
            /\ lock' = Unlocked
            /\ pc' = [pc EXCEPT ![c] = "connect"]
            /\ nGet' = [nGet EXCEPT ![c] = g + 1]
            /\ wakeAt' = [wakeAt EXCEPT ![c] = 0]

\* a get that goes to the network without its turn at the limiter
Acquire_Skipped(c, g) ==
    /\ pc' = [pc EXCEPT ![c] = "connect"]
    /\ nGet' = [nGet EXCEPT ![c] = g + 1]
    /\ wakeAt' = [wakeAt EXCEPT ![c] = 0]
    /\ stampAt' = [stampAt EXCEPT ![c] = 0]
    /\ UNCHANGED <<lock, last_call_time, stamps>>

\* await self.rate_limiter.acquire(), up to its first suspension
Acquire(c, g) ==
    IF LockFree
    THEN ReadWaitStamp(c, g)
    ELSE /\ pc' = [pc EXCEPT ![c] = "lockwait"]
         /\ nGet' = [nGet EXCEPT ![c] = g]
         /\ wakeAt' = [wakeAt EXCEPT ![c] = 0]
         /\ stampAt' = [stampAt EXCEPT ![c] = 0]
         /\ UNCHANGED <<lock, last_call_time, stamps>>

\* a task waiting for the lock gets it
LockAcquired(c) ==
    /\ UNCHANGED fnVars
    /\ pc[c] = "lockwait"
    /\ LockFree
    /\ ReadWaitStamp(c, nGet[c])
    /\ UNCHANGED <<now, calls_per_second, min_interval, cache, entry, req,
                   nAcq, hit, result, wire, serial, calls, toolVars, sent>>

\* the sleep of the lock holder is over: stamp, release, return
Wake(c) ==
    /\ UNCHANGED fnVars
    /\ pc[c] = "sleep"
    /\ now >= wakeAt[c]
    /\ last_call_time' = now
    /\ stamps' = Append(stamps, now)
    /\ lock' = Unlocked
    /\ pc' = [pc EXCEPT ![c] = "connect"]
    /\ nGet' = [nGet EXCEPT ![c] = nGet[c] + 1]
    /\ stampAt' = [stampAt EXCEPT ![c] = now]
    /\ wakeAt' = [wakeAt EXCEPT ![c] = 0]
    /\ UNCHANGED <<now, calls_per_second, min_interval, cache, entry, req,
                   nAcq, hit, result, wire, serial, calls, toolVars, sent>>

\* ---- PubChemClient.get ----

\* if cache_key in self._cache and time() - entry['time'] < cache_ttl
CacheLive_IgnoreTtl(key, cache_ttl) == key \in DOMAIN cache
CacheLive_Never(key, cache_ttl) == FALSE
CacheLive(key, cache_ttl) ==
    /\ key \in DOMAIN cache
    /\ now - cache[key].time < cache_ttl

\* if response.status_code == 200
Cacheable_AnyReply(status_code) == TRUE
Cacheable(status_code) == status_code = 200

\* self._cache[cache_key] = {'time': ..., 'response': response}
\* (CachePut_Replace: the other keys are dropped; CachePut_First: an entry
\* that is there is left alone)
CachePut_Replace(key, response) ==
    [k \in {key} |-> [time |-> now, response |-> response]]
CachePut_First(key, response) ==
    [k \in DOMAIN cache \cup {key} |->
        IF k \in DOMAIN cache THEN cache[k]
        ELSE [time |-> now, response |-> response]]
CachePut(key, response) ==
    [k \in DOMAIN cache \cup {key} |->
        IF k = key THEN [time |-> now, response |-> response] ELSE cache[k]]

\* where a get goes after a failed fetch: it returns (or raises) at once
AfterFailure_Retry == "lockwait"
AfterFailure == "returned"

\* get(url, cache_key, cache_ttl) up to its first suspension
GetCall(c, url, cache_key, cache_ttl) ==
    LET key == ResolveKey(cache_key, url)
    IN /\ req' = [req EXCEPT ![c] =
                    [url |-> url, key |-> key, ttl |-> cache_ttl, id |-> calls',
                     seen |-> IF key \in DOMAIN cache
                              THEN cache[key].response.serial ELSE 0]]
       /\ IF CacheLive(key, cache_ttl)
          THEN /\ result' = [result EXCEPT ![c] = cache[key].response]
               /\ hit' = [hit EXCEPT ![c] = TRUE]
               /\ pc' = [pc EXCEPT ![c] = "returned"]
               /\ nAcq' = [nAcq EXCEPT ![c] = 0]
               /\ nGet' = [nGet EXCEPT ![c] = 0]
               /\ wakeAt' = [wakeAt EXCEPT ![c] = 0]
               /\ stampAt' = [stampAt EXCEPT ![c] = 0]
               /\ UNCHANGED <<lock, last_call_time, stamps>>
          ELSE /\ result' = [result EXCEPT ![c] = NoResult]
               /\ hit' = [hit EXCEPT ![c] = FALSE]
               /\ nAcq' = [nAcq EXCEPT ![c] = 1]
               /\ Acquire(c, 0)
       /\ UNCHANGED <<now, calls_per_second, min_interval, cache, wire, serial>>

\* client.get(url): the connection is up and the GET goes out
Send(c) ==
    /\ UNCHANGED fnVars
    /\ pc[c] = "connect"
    /\ pc' = [pc EXCEPT ![c] = "inflight"]
    /\ wire' = [n |-> wire.n + 1, t |-> now, prev |-> wire.t,
                via |-> "PubChemClient.get"]
    /\ sent' = sent \cup {[caller |-> entry[c], via |-> "PubChemClient.get"]}
    /\ UNCHANGED <<now, calls_per_second, min_interval, last_call_time, lock,
                   cache, entry, req, wakeAt, stampAt, nAcq, nGet, hit, result, stamps,
                   serial, calls, toolVars>>

\* the upstream answers with a status code
Respond(c, status_code, body) ==
    /\ UNCHANGED fnVars
    /\ pc[c] = "inflight"
    /\ LET response == Response(status_code, req[c].url, serial + 1, body)
       IN /\ serial' = serial + 1
          /\ result' = [result EXCEPT ![c] = response]
          /\ IF Cacheable(status_code)
             THEN /\ cache' = CachePut(req[c].key, response)
                  /\ pc' = [pc EXCEPT ![c] = "returned"]
             ELSE /\ cache' = cache
                  /\ pc' = [pc EXCEPT ![c] = AfterFailure]
    /\ UNCHANGED <<now, calls_per_second, min_interval, last_call_time, lock,
                   entry, req, wakeAt, stampAt, nAcq, nGet, hit, stamps, wire, calls,
                   toolVars, sent>>

\* client.get raises (connection failure, timeout): get has no handler for
\* it, the exception leaves get
TransportError(c) ==
    /\ UNCHANGED fnVars
    /\ pc[c] \in {"connect", "inflight"}
    /\ result' = [result EXCEPT ![c] = Raised("RequestError")]
    /\ pc' = [pc EXCEPT ![c] = AfterFailure]
    /\ UNCHANGED <<now, calls_per_second, min_interval, last_call_time, lock,
                   cache, entry, req, wakeAt, stampAt, nAcq, nGet, hit, stamps, wire,
                   serial, calls, toolVars, sent>>

\* ---- callers ----

\* a task calls pubchem_client.get with arguments of its choice
CallGet(c) ==
    /\ UNCHANGED fnVars
    /\ pc[c] = "idle" \/ (pc[c] = "returned" /\ entry[c] = "get")
    /\ calls < MaxCalls
    /\ calls' = calls + 1
    /\ entry' = [entry EXCEPT ![c] = "get"]
    /\ \E a \in GetArgs : GetCall(c, a[1], a[2], a[3])
    /\ UNCHANGED <<toolVars, sent>>

Next ==
    \/ Tick
    \/ \E c \in Tasks : CallGet(c)
    \/ \E c \in Tasks : LockAcquired(c)
    \/ \E c \in Tasks : Wake(c)
    \/ \E c \in Tasks : Send(c)
    \/ \E c \in Tasks, status_code \in StatusCodes :
          Respond(c, status_code, NoList)
    \/ \E c \in Tasks : TransportError(c)

Spec == Init /\ [][Next]_vars

\* ---- tool handlers ----

\* cache_ttl: int = 3600, in seconds
DefaultCacheTtl == 3600
\* exceptions client.get can raise: none, an httpx.RequestError, another one
Excs == {None, "RequestError", "Exception"}
\* response.raise_for_status() passes
IsSuccess(status_code) == status_code >= 200 /\ status_code <= 299
Min(a, b) == IF a <= b THEN a ELSE b

\* one outcome of a GET: an exception, or a status code, with a body that
\* counts when the code is a 2xx
Reply(exc, status_code, body) ==
    /\ exc # None => status_code = 200
    /\ (exc # None \/ ~IsSuccess(status_code)) => body = NoList

\* a task can start an invocation
Free(c) == pc[c] \in {"idle", "done"}

\* the handler returns t; its locals are gone
Return(c, t) ==
    /\ pc' = [pc EXCEPT ![c] = "done"]
    /\ out' = [out EXCEPT ![c] = t]
    /\ stage' = [stage EXCEPT ![c] = None]
    /\ held' = [held EXCEPT ![c] = NoList]
    /\ todo' = [todo EXCEPT ![c] = 0]
    /\ found' = [found EXCEPT ![c] = 0]

\* the response and the arguments of the handler's last get are gone too
Forget(c) ==
    /\ req' = [req EXCEPT ![c] = NoReq]
    /\ result' = [result EXCEPT ![c] = NoResult]
    /\ hit' = [hit EXCEPT ![c] = FALSE]
    /\ nAcq' = [nAcq EXCEPT ![c] = 0]
    /\ nGet' = [nGet EXCEPT ![c] = 0]
    /\ stampAt' = [stampAt EXCEPT ![c] = 0]
    /\ UNCHANGED <<wakeAt, lock, last_call_time, stamps, calls>>

\* a handler calls pubchem_client.get(url): default key, default ttl
HandlerGet(c, url) ==
    /\ calls' = calls + 1
    /\ GetCall(c, url, None, DefaultCacheTtl * TicksPerSecond)

\* -- search_compound_by_name(query, limit), compounds/search.py --

\* "aspirin" is the query with a built-in answer
Queries == {"aspirin", "benzene"}
\* the name-search URL and the property URLs of the CIDs found
SearchUrl == "u1"
PropertyUrl(i) == <<"u2", "u3", "u4">>[i]

SearchCall(c) ==
    /\ UNCHANGED fnVars
    /\ Free(c)
    /\ calls < MaxCalls
    /\ entry' = [entry EXCEPT ![c] = "search_compound_by_name"]
    /\ \E query \in Queries, limit \in 0..MaxCids :
          IF query = "aspirin"
          THEN /\ Return(c, Text("Compound Search Results for"))
               /\ calls' = calls + 1
               /\ UNCHANGED <<now, calls_per_second, min_interval,
                              last_call_time, lock, cache, req, wakeAt, stampAt,
                              nAcq, nGet, hit, result, stamps, wire, serial,
                              reply, sent>>
          ELSE /\ stage' = [stage EXCEPT ![c] = "name"]
               /\ todo' = [todo EXCEPT ![c] = limit]
               /\ found' = [found EXCEPT ![c] = 0]
               /\ out' = [out EXCEPT ![c] = NoOut]
               /\ HandlerGet(c, SearchUrl)
               /\ UNCHANGED <<held, reply, sent>>

\* the handler is back from get with the answer to the name search
SearchNameReply(c) ==
    /\ UNCHANGED fnVars
    /\ pc[c] = "returned"
    /\ entry[c] = "search_compound_by_name"
    /\ stage[c] = "name"
    /\ LET r == result[c]
           \* cids = cids[:limit]
           k == Min(r.body, todo[c])
       IN IF r.raised \/ (r.status # 404 /\ ~IsSuccess(r.status))
             \/ (r.status # 404 /\ r.body = NotJson)
          THEN /\ Return(c, Text("Error searching compounds: "))
               /\ Forget(c)
          ELSE IF r.status = 404 \/ r.body < 1
          THEN /\ Return(c, Text("No compounds found matching"))
               /\ Forget(c)
          ELSE IF k = 0
          THEN /\ Return(c, Text("No compound details found for"))
               /\ Forget(c)
          ELSE /\ stage' = [stage EXCEPT ![c] = "props"]
               /\ todo' = [todo EXCEPT ![c] = k]
               /\ held' = [held EXCEPT ![c] = k]
               /\ UNCHANGED <<out, found>>
               /\ HandlerGet(c, PropertyUrl(1))
    /\ UNCHANGED <<now, calls_per_second, min_interval, cache, wire, serial,
                   entry, reply, sent>>

\* the handler is back from get with the properties of one CID
SearchPropsReply(c) ==
    /\ UNCHANGED fnVars
    /\ pc[c] = "returned"
    /\ entry[c] = "search_compound_by_name"
    /\ stage[c] = "props"
    /\ LET r == result[c]
           \* prop_response.status_code == 200: one more result line
           n == IF ~r.raised /\ r.status = 200 THEN found[c] + 1 ELSE found[c]
       IN IF r.raised \/ (r.status = 200 /\ r.body \in {NotJson, 0})
          THEN /\ Return(c, Text("Error searching compounds: "))
               /\ Forget(c)
          ELSE IF todo[c] = 1
          THEN /\ Return(c, IF n = 0
                            THEN Text("No compound details found for")
                            ELSE Text("Compound Search Results for"))
               /\ Forget(c)
          ELSE /\ todo' = [todo EXCEPT ![c] = todo[c] - 1]
               /\ found' = [found EXCEPT ![c] = n]
               /\ UNCHANGED <<out, stage, held>>
               /\ HandlerGet(c, PropertyUrl(held[c] - todo[c] + 2))
    /\ UNCHANGED <<now, calls_per_second, min_interval, cache, wire, serial,
                   entry, reply, sent>>

\* -- get_compound_details(cid), compounds/details.py --

\* "2244" is the CID with a built-in answer
Cids == {"2244", "241"}

\* async with httpx.AsyncClient() as client: client.get(url)
DirectGet(caller) == [caller |-> caller, via |-> "httpx.AsyncClient.get"]

DetailsCall(c) ==
    /\ UNCHANGED fnVars
    /\ Free(c)
    /\ calls < MaxCalls
    /\ calls' = calls + 1
    /\ entry' = [entry EXCEPT ![c] = "get_compound_details"]
    /\ reply' = [reply EXCEPT ![c] = NoReply]
    /\ \E cid \in Cids :
          IF cid = "2244"
          THEN /\ Return(c, Text("Compound Details for CID"))
               /\ sent' = sent
          ELSE /\ pc' = [pc EXCEPT ![c] = "direct"]
               /\ out' = [out EXCEPT ![c] = NoOut]
               /\ stage' = [stage EXCEPT ![c] = "record"]
               /\ sent' = sent \cup {DirectGet("get_compound_details")}
               /\ UNCHANGED <<held, todo, found>>
    /\ UNCHANGED <<now, calls_per_second, min_interval, last_call_time, lock,
                   cache, req, wakeAt, stampAt, nAcq, nGet, hit, result, stamps,
                   wire, serial>>

\* the text the handler ends with at this reply, or None when it goes on
\* to its next request
DetailsText(st, heldBody, exc, status_code, body) ==
    IF exc # None THEN "Error retrieving compound details: "
    ELSE IF st = "record"
    THEN IF status_code = 404 THEN "No compound found with CID"
         ELSE IF ~IsSuccess(status_code)
              THEN "Error retrieving compound details: "
              ELSE None
    ELSE IF st = "props"
    THEN IF heldBody = NotJson \/ (status_code = 200 /\ body \in {NotJson, 0})
         THEN "Error retrieving compound details: "
         ELSE None
    ELSE IF status_code = 200 /\ body \in {NotJson, 0}
         THEN "Error retrieving compound details: "
         ELSE "Compound Details for CID"

NextStage(st) == IF st = "record" THEN "props" ELSE "synonyms"

\* the upstream answers the handler's GET, or the GET fails
DetailsReply(c, exc, status_code, body) ==
    /\ UNCHANGED fnVars
    /\ pc[c] = "direct"
    /\ entry[c] = "get_compound_details"
    /\ Reply(exc, status_code, body)
    /\ reply' = [reply EXCEPT ![c] =
                    [exc |-> exc, status |-> status_code, body |-> body]]
    /\ LET t == DetailsText(stage[c], held[c], exc, status_code, body)
       IN IF t # None
          THEN Return(c, Text(t))
          ELSE /\ stage' = [stage EXCEPT ![c] = NextStage(stage[c])]
               /\ held' = [held EXCEPT ![c] =
                              IF stage[c] = "record" THEN body ELSE held[c]]
               /\ UNCHANGED <<pc, out, todo, found>>
    /\ UNCHANGED <<now, calls_per_second, min_interval, last_call_time, lock,
                   cache, entry, req, wakeAt, stampAt, nAcq, nGet, hit, result,
                   stamps, wire, serial, calls, sent>>

\* -- make_pubchem_request(url), mcp_server/server.py --

MakeRequestCall(c) ==
    /\ UNCHANGED fnVars
    /\ Free(c)
    /\ calls < MaxCalls
    /\ calls' = calls + 1
    /\ entry' = [entry EXCEPT ![c] = "make_pubchem_request"]
    /\ pc' = [pc EXCEPT ![c] = "direct"]
    /\ out' = [out EXCEPT ![c] = NoOut]
    /\ reply' = [reply EXCEPT ![c] = NoReply]
    /\ stage' = [stage EXCEPT ![c] = "request"]
    /\ sent' = sent \cup {DirectGet("make_pubchem_request")}
    /\ UNCHANGED <<now, calls_per_second, min_interval, last_call_time, lock,
                   cache, req, wakeAt, stampAt, nAcq, nGet, hit, result, stamps,
                   wire, serial, held, todo, found>>

\* an exception that leaves the function
Propagated(e) == [text |-> e, code |-> 0, raised |-> TRUE]

\* the try/except of make_pubchem_request: what it returns
RequestResult_Propagate(exc, status_code, body) ==
    IF exc # None THEN Propagated(exc)
    ELSE IF ~IsSuccess(status_code)
         THEN [text |-> "HTTP error: ", code |-> status_code, raised |-> FALSE]
         ELSE Text("json")
RequestResult(exc, status_code, body) ==
    IF exc = "RequestError" THEN Text("Request error")
    ELSE IF exc # None THEN Text("Unexpected error")
    ELSE IF ~IsSuccess(status_code)
         THEN [text |-> "HTTP error: ", code |-> status_code, raised |-> FALSE]
         ELSE IF body = NotJson THEN Text("Unexpected error")
              ELSE Text("json")

MakeRequestReply(c, exc, status_code, body) ==
    /\ UNCHANGED fnVars
    /\ pc[c] = "direct"
    /\ entry[c] = "make_pubchem_request"
    /\ Reply(exc, status_code, body)
    /\ reply' = [reply EXCEPT ![c] =
                    [exc |-> exc, status |-> status_code, body |-> body]]
    /\ Return(c, RequestResult(exc, status_code, body))
    /\ UNCHANGED <<now, calls_per_second, min_interval, last_call_time, lock,
                   cache, entry, req, wakeAt, stampAt, nAcq, nGet, hit, result,
                   stamps, wire, serial, calls, sent>>

\* -- get_compound_details(cid), mcp_server/server.py --

\* what make_pubchem_request hands back for a reply, as the handler reads
\* it: NotJson stands for an error record, any other value for the body
ResponseOf(exc, status_code, body) ==
    IF RequestResult(exc, status_code, body).text # "json" THEN NotJson
    ELSE body

\* the request that follows the one at st, None when the handler goes on to
\* build its result; failed: the response has the key "error"
ServerDetailsStage_GoOn(st, failed) ==
    IF st = "record" THEN "props"
    ELSE IF st = "props" THEN "synonyms"
    ELSE None
ServerDetailsStage(st, failed) ==
    IF st = "record" THEN IF failed THEN None ELSE "props"
    ELSE IF st = "props" THEN "synonyms"
    ELSE None

\* result = {"CID": ..., "record": ...}, and "properties" and "synonyms"
\* when their conditions hold
Merged(properties, synonyms) ==
    Text(IF properties /\ synonyms THEN "CID record properties synonyms"
         ELSE IF properties THEN "CID record properties"
         ELSE IF synonyms THEN "CID record synonyms"
         ELSE "CID record")

\* the merge of the three responses
ServerDetailsResult(response, props_response, synonyms_response) ==
    IF response = 0 THEN Propagated("IndexError")
    ELSE IF props_response = NoInner THEN Propagated("KeyError")
    ELSE IF synonyms_response = 0 THEN Propagated("IndexError")
    ELSE Merged(props_response >= 0,
                synonyms_response = NoInner \/ synonyms_response >= 1)

ServerDetailsCall(c) ==
    /\ UNCHANGED fnVars
    /\ Free(c)
    /\ calls < MaxCalls
    /\ calls' = calls + 1
    /\ entry' = [entry EXCEPT ![c] = "server.get_compound_details"]
    /\ pc' = [pc EXCEPT ![c] = "direct"]
    /\ out' = [out EXCEPT ![c] = NoOut]
    /\ reply' = [reply EXCEPT ![c] = NoReply]
    /\ stage' = [stage EXCEPT ![c] = "record"]
    /\ sent' = sent \cup {DirectGet("make_pubchem_request")}
    /\ UNCHANGED <<now, calls_per_second, min_interval, last_call_time, lock,
                   cache, req, wakeAt, stampAt, nAcq, nGet, hit, result, stamps,
                   wire, serial, held, todo, found>>

\* make_pubchem_request is back with the answer to the request at stage[c]
ServerDetailsReply(c, exc, status_code, body) ==
    /\ UNCHANGED fnVars
    /\ pc[c] = "direct"
    /\ entry[c] = "server.get_compound_details"
    /\ Reply(exc, status_code, body)
    /\ reply' = [reply EXCEPT ![c] =
                    [exc |-> exc, status |-> status_code, body |-> body]]
    /\ LET r == ResponseOf(exc, status_code, body)
           nx == ServerDetailsStage(stage[c], r = NotJson)
       IN IF nx # None
          THEN /\ stage' = [stage EXCEPT ![c] = nx]
               /\ held' = [held EXCEPT ![c] =
                              IF stage[c] = "record" THEN r ELSE held[c]]
               /\ found' = [found EXCEPT ![c] =
                               IF stage[c] = "props" THEN r ELSE found[c]]
               /\ UNCHANGED <<pc, out, todo>>
          ELSE IF stage[c] = "record"
          THEN Return(c, RequestResult(exc, status_code, body))
          ELSE Return(c, ServerDetailsResult(held[c], found[c], r))
    /\ UNCHANGED <<now, calls_per_second, min_interval, last_call_time, lock,
                   cache, entry, req, wakeAt, stampAt, nAcq, nGet, hit, result,
                   stamps, wire, serial, calls, sent>>

\* the handlers run one invocation at a time, so no call waits for the
\* limiter's lock
ToolTasks == {1}

NextTools ==
    \/ Tick
    \/ \E c \in ToolTasks : SearchCall(c)
    \/ \E c \in ToolTasks : SearchNameReply(c)
    \/ \E c \in ToolTasks : SearchPropsReply(c)
    \/ \E c \in ToolTasks : DetailsCall(c)
    \/ \E c \in ToolTasks, exc \in Excs, status_code \in ReplyCodes, body \in Bodies :
          DetailsReply(c, exc, status_code, body)
    \/ \E c \in ToolTasks : MakeRequestCall(c)
    \/ \E c \in ToolTasks, exc \in Excs, status_code \in ReplyCodes, body \in Bodies :
          MakeRequestReply(c, exc, status_code, body)
    \/ \E c \in ToolTasks : ServerDetailsCall(c)
    \/ \E c \in ToolTasks, exc \in Excs, status_code \in ReplyCodes,
          body \in ServerBodies :
          ServerDetailsReply(c, exc, status_code, body)
    \/ \E c \in ToolTasks : Wake(c)
    \/ \E c \in ToolTasks : Send(c)
    \/ \E c \in ToolTasks, status_code \in StatusCodes, body \in Bodies :
          Reply(None, status_code, body) /\ Respond(c, status_code, body)
    \/ \E c \in ToolTasks : TransportError(c)

SpecTools == Init /\ [][NextTools]_vars

\* ---- handlers as functions of the upstream's replies ----

\* every variable of the gateway and of the step-wise handlers
stepVars == <<now, calls_per_second, min_interval, last_call_time, lock, cache,
              pc, entry, req, wakeAt, stampAt, nAcq, nGet, hit, result, stamps,
              wire, serial, calls, toolVars, sent>>

ServerReplies ==
    {r \in [exc : Excs, status : ReplyCodes, body : ServerBodies] :
        Reply(r.exc, r.status, r.body)}

\* what an invocation ends with: a mapping with n entries, the error record
\* of make_pubchem_request, a string (a sequence of pieces), or an
\* exception that leaves the handler; asked: requests it sent
Mapping(n, asked) ==
    [kind |-> "mapping", text |-> <<>>, n |-> n, asked |-> asked,
     note |-> FALSE, shown |-> 0, total |-> 0,
     scores |-> <<>>]
ErrorRecord(t, asked) ==
    [kind |-> "error record", text |-> <<t>>, n |-> 0, asked |-> asked,
     note |-> FALSE, shown |-> 0, total |-> 0,
     scores |-> <<>>]
Raises(e, asked) ==
    [kind |-> "raised", text |-> <<e>>, n |-> 0, asked |-> asked,
     note |-> FALSE, shown |-> 0, total |-> 0,
     scores |-> <<>>]
String(t, asked) ==
    [kind |-> "string", text |-> t, n |-> 0, asked |-> asked,
     note |-> FALSE, shown |-> 0, total |-> 0,
     scores |-> <<>>]
\* a string that lists n numbered entries under heading t
Listing(t, n, asked) ==
    [kind |-> "string", text |-> t, n |-> n, asked |-> asked,
     note |-> FALSE, shown |-> 0, total |-> 0,
     scores |-> <<>>]
\* the same with the trailing note "Showing <shown> of <total> synonyms."
Noted(t, n, shown, total, asked) ==
    [kind |-> "string", text |-> t, n |-> n, asked |-> asked,
     note |-> TRUE, shown |-> shown, total |-> total,
     scores |-> <<>>]

\* make_pubchem_request(url) on reply r, and: "error" in response
RequestOf(r) == RequestResult(r.exc, r.status, r.body)
HasError(r) == RequestOf(r).text # "json"

\* props_response["PropertyTable"]["Properties"][0]
\*     if props_response["PropertyTable"]["Properties"] else {}
\* under: "error" not in props_response and "PropertyTable" in props_response
PropertiesRaise(r) == ~HasError(r) /\ r.body = NoInner
PropertiesKept(r) == ~HasError(r) /\ r.body >= 0

\* response.get("PC_Compounds", [{}])[0] if "PC_Compounds" in response else {}
RecordRaises(r) == r.body = 0

\* synonyms_response["InformationList"].get("Information", [{}])[0]
\* under: "error" not in synonyms_response and "InformationList" in it
SynonymsRaise(r) == ~HasError(r) /\ r.body = 0
SynonymsKept(r) == ~HasError(r) /\ (r.body = NoInner \/ r.body >= 1)

\* -- get_compound_details(cid), mcp_server/server.py --
\* replies: of the record, properties and synonyms requests; n: how many of
\* the optional sections "properties" and "synonyms" the mapping has
ServerGetCompoundDetails(replies) ==
    IF HasError(replies[1])
    THEN ErrorRecord(RequestOf(replies[1]).text, 1)
    ELSE IF RecordRaises(replies[1]) THEN Raises("IndexError", 3)
    ELSE IF PropertiesRaise(replies[2]) THEN Raises("KeyError", 3)
    ELSE IF SynonymsRaise(replies[3]) THEN Raises("IndexError", 3)
    ELSE Mapping((IF PropertiesKept(replies[2]) THEN 1 ELSE 0)
                 + (IF SynonymsKept(replies[3]) THEN 1 ELSE 0), 3)

\* -- search_compound(query, max_results), mcp_server/server.py --
\* replies: of the name request, then of one property request per CID the
\* name request listed; n: the compounds appended
RECURSIVE ServerCompounds(_, _)
ServerCompounds(replies, i) ==
    IF i > Len(replies) THEN Mapping(0, Len(replies))
    ELSE IF PropertiesRaise(replies[i]) THEN Raises("KeyError", i)
    ELSE LET rest == ServerCompounds(replies, i + 1)
         IN  IF rest.kind = "raised" \/ ~PropertiesKept(replies[i]) THEN rest
             ELSE Mapping(rest.n + 1, rest.asked)

ServerSearchCids(r) == IF r.body >= 0 THEN r.body ELSE 0

ServerSearchCompound(replies) ==
    IF HasError(replies[1])
    THEN ErrorRecord(RequestOf(replies[1]).text, 1)
    ELSE ServerCompounds(SubSeq(replies, 1, 1 + ServerSearchCids(replies[1])), 2)

\* -- the string-returning handlers with one upstream request --

\* client.get, response.raise_for_status(), response.json() inside the
\* handler's try: the exception they end with, or None
Fetch(r) ==
    IF r.exc # None THEN r.exc
    ELSE IF ~IsSuccess(r.status) THEN "HTTPStatusError"
    ELSE IF r.body = NotJson THEN "JSONDecodeError"
    ELSE None

\* except Exception as e: return f"Error <activity>: {str(e)}"
Caught_Bare(activity, e) == <<activity, " failed", ":", " ", e>>
Caught(activity, e) == <<"Error", " ", activity, ":", " ", e>>
\* return f"Error: <detail>"
Refused(detail) == <<"Error", ":", " ", detail>>

\* str.startswith on the pieces of a string
StartsWith(t, prefix) ==
    Len(t) >= Len(prefix) /\ SubSeq(t, 1, Len(prefix)) = prefix

\* -- get_compound_details(cid), pubchem_mcp/__init__.py --
\* data.get('PC_Compounds', [{}])[0] raises on an empty list, inside the try
PkgGetCompoundDetails(r) ==
    IF Fetch(r) # None
    THEN String(Caught("retrieving compound details", Fetch(r)), 1)
    ELSE IF r.body = 0
    THEN String(Caught("retrieving compound details", "IndexError"), 1)
    ELSE String(<<"Compound Details (CID: ">>, 1)

\* -- get_substance_details(sid), pubchem_mcp/substances/__init__.py --
Digits == {"0", "1", "2", "3", "4", "5", "6", "7", "8", "9"}
IsDigit(s) == Len(s) > 0 /\ \A i \in 1..Len(s) : s[i] \in Digits
Sids == {<<"4", "2">>, <<"4", "x">>, <<>>}

SubstanceDetails(sid, r) ==
    IF ~IsDigit(sid) THEN String(Refused("Invalid Substance ID format"), 0)
    ELSE IF r.exc # None
    THEN String(Caught("retrieving substance details", r.exc), 1)
    ELSE IF r.status = 404
    THEN String(Refused("No substance found with SID"), 1)
    ELSE IF r.status # 200
    THEN String(Refused("Failed to retrieve substance details"), 1)
    ELSE IF r.body = NotJson
    THEN String(Caught("retrieving substance details", "JSONDecodeError"), 1)
    ELSE IF r.body < 1
    THEN String(Refused("No substance details found for SID"), 1)
    ELSE Mapping(1, 1)

\* -- the structure searches of pubchem_mcp/compounds/search.py --
\* search_compound_by_smiles(smiles) and search_compound_by_inchi(inchi):
\* one request for the CIDs, one for the properties of the first CID

\* the status code the handler answers with a not-found message before
\* response.raise_for_status()
IsNotFound_Never(status_code) == FALSE
IsNotFound(status_code) == status_code = 404
\* the status code it answers with an invalid-notation message
IsBadRequest_Never(status_code) == FALSE
IsBadRequest(status_code) == status_code = 400

\* the notations of aspirin, for which each handler has a canned answer
AspirinSmiles == <<"CC(=O)OC1=CC=CC=C1C(=O)O">>
AspirinInchi == <<"1S/C9H8O4/c1-6(10)13-8-5-3-2-4-7(8)9(11)12/h2-5H,1H3,(H,11,12)">>
Notations == {AspirinSmiles, AspirinInchi, <<"C", "(">>}
Mocked(kind, notation) ==
    notation = IF kind = "SMILES" THEN AspirinSmiles ELSE AspirinInchi
Kinds == {"SMILES", "InChI"}
Activity(kind) ==
    IF kind = "SMILES" THEN "searching by SMILES" ELSE "searching by InChI"
ToolOf(kind) ==
    IF kind = "SMILES" THEN "search_compound_by_smiles"
    ELSE "search_compound_by_inchi"

\* prop_data.get("PropertyTable", {}).get("Properties", [{}])[0], inside the
\* try: an empty list raises, a missing key gives {}
FirstProperties(r) ==
    IF r.body = NotJson THEN "JSONDecodeError"
    ELSE IF r.body = 0 THEN "IndexError"
    ELSE None

SearchByStructure(kind, notation, replies) ==
    LET r == replies[1]
        p == replies[2]
    IN  IF Mocked(kind, notation)
        THEN String(<<"Compound Search Results for ", kind>>, 0)
        ELSE IF r.exc # None THEN String(Caught(Activity(kind), r.exc), 1)
        ELSE IF IsNotFound(r.status)
        THEN String(<<"No compounds found matching ", kind, ": ">>, 1)
        ELSE IF IsBadRequest(r.status)
        THEN String(<<"Invalid ", kind, " notation", ": ">>, 1)
        ELSE IF Fetch(r) # None THEN String(Caught(Activity(kind), Fetch(r)), 1)
        ELSE IF r.body < 1
        THEN String(<<"No compounds found matching ", kind, ": ">>, 1)
        ELSE IF p.exc # None THEN String(Caught(Activity(kind), p.exc), 2)
        ELSE IF p.status # 200
        THEN String(<<"No compound details found for ", kind, ": ">>, 2)
        ELSE IF FirstProperties(p) # None
        THEN String(Caught(Activity(kind), FirstProperties(p)), 2)
        ELSE String(<<"Compound Search Results for ", kind>>, 2)

\* -- the structure searches of pubchem_mcp/__init__.py --
\* except httpx.HTTPStatusError: 400 and 404 get the not-found message
NoMatchCodes == {400, 404}

\* search_compound_by_smiles(smiles): the CIDs, then get_compound_details
PkgSearchBySmiles(replies) ==
    LET r == replies[1]
        no == String(<<"No compounds found matching ", "the SMILES string.">>, 1)
    IN  IF r.exc # None
        THEN String(Caught("searching compounds by SMILES", r.exc), 1)
        ELSE IF r.status = 404 THEN no
        ELSE IF ~IsSuccess(r.status)
        THEN IF r.status \in NoMatchCodes THEN no
             ELSE String(Caught("searching compounds by SMILES",
                                "HTTPStatusError"), 1)
        ELSE IF r.body = NotJson
        THEN String(Caught("searching compounds by SMILES",
                           "JSONDecodeError"), 1)
        ELSE IF r.body < 1 THEN no
        ELSE String(PkgGetCompoundDetails(replies[2]).text, 2)

\* search_compound_by_inchi(inchi): one POST for the properties
PkgSearchByInchi(r) ==
    LET no == String(<<"No compounds found matching ", "the InChI string.">>, 1)
    IN  IF r.exc # None
        THEN String(Caught("searching compounds by InChI", r.exc), 1)
        ELSE IF r.status = 404 THEN no
        ELSE IF ~IsSuccess(r.status)
        THEN IF r.status \in NoMatchCodes THEN no
             ELSE String(Caught("searching compounds by InChI",
                                "HTTPStatusError"), 1)
        ELSE IF r.body = NotJson
        THEN String(Caught("searching compounds by InChI",
                           "JSONDecodeError"), 1)
        ELSE IF r.body < 1 THEN no
        ELSE String(<<"Compound Details:">>, 1)

\* -- get_compound_synonyms(cid, max_synonyms), pubchem_mcp/__init__.py --
MaxSynonyms == 3
MaxLimit == 2
Limits == 0..MaxLimit
SynonymCids == {<<"2244">>, <<"241">>}
\* a 200 body of the synonyms request: n >= 1 is one Information entry with
\* n synonyms, 0 an empty Information list
SynonymReplies ==
    {r \in [exc : Excs, status : ReplyCodes,
            body : (NotJson..MaxSynonyms) \cup {NoInner}] :
        Reply(r.exc, r.status, r.body)}

\* the canned answer for aspirin: ten entries, "Showing 10 of 234 synonyms."
MockShown == 10
MockTotal == 234

\* synonyms = synonyms[:max_synonyms], for max_synonyms >= 0
Cut_None(n, limit) == n

Cut(n, limit) == Min(n, limit)

PkgSynonymsFailed(cid, e) ==
    IF cid = <<"2244">>
    THEN Noted(<<"Synonyms for CID ">>, MockShown, MockShown, MockTotal, 1)
    ELSE String(Caught("retrieving compound synonyms", e), 1)

PkgGetCompoundSynonyms(cid, max_synonyms, r) ==
    IF r.exc # None THEN PkgSynonymsFailed(cid, r.exc)
    ELSE IF r.status = 404 THEN String(<<"No synonyms found for compound CID ">>, 1)
    ELSE IF Fetch(r) # None THEN PkgSynonymsFailed(cid, Fetch(r))
    ELSE IF r.body = 0 THEN PkgSynonymsFailed(cid, "IndexError")
    ELSE IF r.body < 1 THEN String(<<"No synonyms found for compound CID ">>, 1)
    ELSE IF r.body > max_synonyms
    THEN Noted(<<"Synonyms for CID ">>, Cut(r.body, max_synonyms),
               max_synonyms, r.body, 1)
    ELSE Listing(<<"Synonyms for CID ">>, Cut(r.body, max_synonyms), 1)

\* -- get_compound_synonyms(cid, max_results), --
\* -- mcp_server/compounds/properties.py       --
\* if max_results > 0: synonyms = synonyms[:max_results]
CutIfPositive(n, limit) == IF limit > 0 THEN Min(n, limit) ELSE n

\* replies: of the request that checks the compound, then of the synonyms
ServerGetCompoundSynonyms(cid, max_results, replies) ==
    LET c == replies[1]
        r == replies[2]
        no == String(<<"No synonyms found for compound with CID ">>, 2)
    IN  IF cid = <<"2244">>
        THEN Listing(<<"Synonyms for ", "Aspirin">>, MockShown, 0)
        ELSE IF c.exc # None
        THEN String(Caught("retrieving compound synonyms", c.exc), 1)
        ELSE IF c.status = 404
        THEN String(Refused("No compound found with CID"), 1)
        ELSE IF c.status = 200 /\ c.body = NotJson
        THEN String(Caught("retrieving compound synonyms", "JSONDecodeError"), 1)
        ELSE IF r.exc # None
        THEN String(Caught("retrieving compound synonyms", r.exc), 2)
        ELSE IF r.status = 404 THEN no
        ELSE IF Fetch(r) # None
        THEN String(Caught("retrieving compound synonyms", Fetch(r)), 2)
        ELSE IF r.body < 1 THEN no
        ELSE Listing(<<"Synonyms for ">>, CutIfPositive(r.body, max_results), 2)

\* -- get_compound_smiles(cid), pubchem_mcp/__init__.py --
\* data.get('PropertyTable', {}).get('Properties', [{}])[0]
\*     .get('CanonicalSMILES', 'N/A'): a missing key falls back to 'N/A',
\* an empty list raises inside the try
PkgGetCompoundSmiles(r) ==
    IF Fetch(r) # None
    THEN String(Caught("retrieving compound SMILES", Fetch(r)), 1)
    ELSE IF r.body = 0
    THEN String(Caught("retrieving compound SMILES", "IndexError"), 1)
    ELSE IF r.body < 0 THEN String(<<"SMILES for CID ", "N/A">>, 1)
    ELSE String(<<"SMILES for CID ", "CanonicalSMILES">>, 1)

\* -- get_compound_literature(cid, max_results) and                    --
\* -- get_compound_patents(cid, max_results), pubchem_mcp/__init__.py  --
XrefKinds == {"literature", "patents"}
XrefTool(kind) ==
    IF kind = "literature" THEN "get_compound_literature"
    ELSE "get_compound_patents"
XrefHead(kind) ==
    IF kind = "literature" THEN <<"PubMed Citations for CID ">>
    ELSE <<"Patents for CID ">>
XrefActivity(kind) ==
    IF kind = "literature" THEN "retrieving compound literature"
    ELSE "retrieving compound patents"
\* the canned lists for aspirin have ten entries each; the totals their
\* notes quote
MockListLen == 10
MockXrefTotal(kind) == IF kind = "literature" THEN 32847 ELSE 1238

\* pmids = pmids[:max_results], and the note when the list was longer
XrefListing(kind, n, max_results, total, asked) ==
    IF n > max_results
    THEN Noted(XrefHead(kind), Cut(n, max_results), max_results, total, asked)
    ELSE Listing(XrefHead(kind), Cut(n, max_results), asked)

PkgGetCompoundXrefs(kind, cid, max_results, r) ==
    IF cid = <<"2244">>
    THEN XrefListing(kind, MockListLen, max_results, MockXrefTotal(kind), 0)
    ELSE IF r.exc # None THEN String(Caught(XrefActivity(kind), r.exc), 1)
    ELSE IF r.status = 404
    THEN String(<<"No ", kind, " references found for compound CID ">>, 1)
    ELSE IF Fetch(r) # None THEN String(Caught(XrefActivity(kind), Fetch(r)), 1)
    ELSE IF r.body = 0 THEN String(Caught(XrefActivity(kind), "IndexError"), 1)
    ELSE IF r.body < 1 THEN String(<<"No ", kind, " found for compound CID ">>, 1)
    ELSE XrefListing(kind, r.body, max_results, r.body, 1)

\* -- get_compound_vendors(cid, max_vendors), pubchem_mcp/__init__.py --
\* the vendor databases asked, in this order
Vendors ==
    <<"Sigma-Aldrich", "Alfa", "MolPort", "Mcule", "Cayman", "ChemicalBook">>
\* the canned answer for aspirin names three vendors
MockVendors == 3
VendorHead == <<"Vendor Information for CID ">>
\* the outcomes of one vendor's request drawn here: product ids, no ids,
\* an empty Information list, a status other than 200, a transport failure
VendorReplies ==
    {r \in SynonymReplies :
        /\ r.exc \in {None, "RequestError"}
        /\ r.status \in {200, 404}
        /\ r.body \in {NoList, 0, 1}}

\* what the body of the loop raises on reply r
VendorRaises(r) ==
    IF r.exc # None THEN r.exc
    ELSE IF r.status # 200 THEN None
    ELSE IF r.body = NotJson THEN "JSONDecodeError"
    ELSE IF r.body = 0 THEN "IndexError"
    ELSE None
\* if vendor_ids: ... found_vendors += 1
VendorFound(r) == r.exc = None /\ r.status = 200 /\ r.body >= 1

\* for vendor in vendors: from the i-th vendor on
RECURSIVE VendorLoop(_, _, _, _)
VendorLoop(replies, i, found_vendors, max_vendors) ==
    IF i > Len(Vendors)
    THEN IF found_vendors = 0
         THEN String(<<"No vendor information found for compound CID ">>, i - 1)
         ELSE Listing(VendorHead, found_vendors, i - 1)
    ELSE IF VendorRaises(replies[i]) # None
    THEN String(Caught("retrieving compound vendors", VendorRaises(replies[i])), i)
    ELSE LET n == IF VendorFound(replies[i]) THEN found_vendors + 1 ELSE found_vendors
         IN  IF n >= max_vendors
             THEN IF n = 0
                  THEN String(<<"No vendor information found for compound CID ">>, i)
                  ELSE Listing(VendorHead, n, i)
             ELSE VendorLoop(replies, i + 1, n, max_vendors)

PkgGetCompoundVendors(cid, max_vendors, replies) ==
    IF cid = <<"2244">>
    THEN Listing(VendorHead, Min(max_vendors, MockVendors), 0)
    ELSE VendorLoop(replies, 1, 0, max_vendors)

\* -- get_compound_conformers(cid, max_conformers), pubchem_mcp/__init__.py --
ConformerHead == <<"Conformers for CID ">>
\* the canned answer for aspirin: five entries, "Showing 5 of 10 conformers."
MockConformers == 5
MockConformerTotal == 10

\* except Exception as e: the canned answer for aspirin, else the error
PkgConformersFailed(cid, e) ==
    IF cid = <<"2244">>
    THEN Noted(ConformerHead, MockConformers, MockConformers,
               MockConformerTotal, 1)
    ELSE String(Caught("retrieving compound conformers", e), 1)

PkgGetCompoundConformers(cid, max_conformers, r) ==
    IF r.exc # None THEN PkgConformersFailed(cid, r.exc)
    ELSE IF r.status = 404
    THEN String(<<"No conformer data found for compound CID ">>, 1)
    ELSE IF Fetch(r) # None THEN PkgConformersFailed(cid, Fetch(r))
    ELSE IF r.body = 0 THEN PkgConformersFailed(cid, "IndexError")
    ELSE IF r.body < 1 THEN String(<<"No conformers found for compound CID ">>, 1)
    ELSE IF r.body > max_conformers
    THEN Noted(ConformerHead, Cut(r.body, max_conformers),
               max_conformers, r.body, 1)
    ELSE Listing(ConformerHead, Cut(r.body, max_conformers), 1)

\* -- get_compound_conformers(cid, max_conformers), --
\* -- pubchem_mcp/compounds/details.py             --
\* int(cid) % 10 of the CIDs drawn
LastDigit(cid) == IF cid = <<"2244">> THEN 4 ELSE 1
\* what reading the Title out of the second reply raises
TitleRaises(r) ==
    IF r.exc # None THEN r.exc
    ELSE IF r.status # 200 THEN None
    ELSE IF r.body = NotJson THEN "JSONDecodeError"
    ELSE IF r.body = 0 THEN "IndexError"
    ELSE None

\* replies: of the request that checks the compound, then of the Title
DetailsGetCompoundConformers(cid, max_conformers, replies) ==
    IF cid = <<"2244">> THEN Listing(ConformerHead, MockConformers, 0)
    ELSE IF replies[1].exc # None
    THEN String(Caught("retrieving conformer data", replies[1].exc), 1)
    ELSE IF replies[1].status = 404
    THEN String(<<"No conformer data found for compound CID ">>, 1)
    ELSE IF ~IsSuccess(replies[1].status)
    THEN String(Caught("retrieving conformer data", "HTTPStatusError"), 1)
    ELSE IF TitleRaises(replies[2]) # None
    THEN String(Caught("retrieving conformer data", TitleRaises(replies[2])), 2)
    ELSE Listing(ConformerHead, Min(LastDigit(cid) + 1, max_conformers), 2)

\* -- search_similar_compounds_by_cid(cid, threshold, max_results) and      --
\* -- search_similar_compounds_by_smiles(smiles, threshold, max_results),   --
\* -- mcp_server/compounds/similarity.py; scores and thresholds are counted --
\* -- in hundredths, the two decimals the handlers round to                 --
Hundredths == 100
\* 0.05 of score lost per rank
ScoreStep == 5
Thresholds == {0, 50, 80, 95, 100}
\* the scores of the canned answer for aspirin
MockScores == <<100, 95, 93, 91, 88>>

\* similarity = round(1.0 - (0.05 * (i - 1)), 2)
\* if similarity < threshold: similarity = round(threshold + 0.01, 2)
Simulated(i, threshold) ==
    LET similarity == Hundredths - ScoreStep * (i - 1)
    IN  IF similarity < threshold THEN threshold + 1 ELSE similarity
\* if str(sim_cid) == cid: similarity = 1.0
SimulatedByCid(i, threshold, self) ==
    IF i = self THEN Hundredths ELSE Simulated(i, threshold)

\* a string that lists entries with these similarity scores
Scored(t, scores, asked) ==
    [Listing(t, Len(scores), asked) EXCEPT !.scores = scores]

SimilarHead == <<"Similar Compounds to ">>

\* the answer to the name request that precedes the search by CID
SimilarNameRaises(r) ==
    IF r.exc # None THEN r.exc
    ELSE IF r.status # 200 THEN None
    ELSE IF r.body = NotJson THEN "JSONDecodeError"
    ELSE IF r.body = 0 THEN "IndexError"
    ELSE None

\* the part the two handlers share: the reply to the similarity search
SimilarListing(subject, threshold, max_results, self, r, asked) ==
    IF r.exc # None
    THEN String(Caught("searching similar compounds", r.exc), asked)
    ELSE IF r.status = 404
    THEN String(<<"No similar compounds found for ", subject>>, asked)
    ELSE IF Fetch(r) # None
    THEN String(Caught("searching similar compounds", Fetch(r)), asked)
    ELSE IF r.body < 1
    THEN String(<<"No similar compounds found for ", subject>>, asked)
    ELSE Scored(SimilarHead,
                [i \in 1..Min(r.body, max_results) |->
                    SimulatedByCid(i, threshold, self)],
                asked)

\* replies: of the Title request, then of the similarity search
SearchSimilarByCid(cid, threshold, max_results, self, replies) ==
    IF cid = <<"2244">> THEN Scored(SimilarHead, MockScores, 0)
    ELSE IF SimilarNameRaises(replies[1]) # None
    THEN String(Caught("searching similar compounds",
                       SimilarNameRaises(replies[1])), 1)
    ELSE IF replies[1].status = 404
    THEN String(<<"No compound found with CID">>, 1)
    ELSE SimilarListing("CID", threshold, max_results, self, replies[2], 2)

\* no entry is the query itself: every score is simulated from the rank
SearchSimilarBySmiles(smiles, threshold, max_results, r) ==
    IF smiles = AspirinSmiles THEN Scored(SimilarHead, MockScores, 0)
    ELSE SimilarListing("the provided SMILES", threshold, max_results, 0, r, 1)

\* an invocation of a handler: the upstream's replies are drawn, the
\* handler consumes as many as it asks for; the handlers below keep nothing
\* from one invocation to the next, so a behaviour holds one invocation
Fresh == inp = NoCall
Invocation(tool, arg, limit, replies, r) ==
    [tool |-> tool, arg |-> arg, limit |-> limit,
     replies |-> SubSeq(replies, 1, r.asked), threshold |-> 0, self |-> 0]

InvokeServerDetails ==
    /\ Fresh
    /\ \E replies \in [1..3 -> ServerReplies] :
           /\ inp' = Invocation("server.get_compound_details", <<"2", "4", "1">>, 0, replies,
                                ServerGetCompoundDetails(replies))
           /\ ret' = ServerGetCompoundDetails(replies)
           /\ UNCHANGED stepVars

InvokeServerSearch ==
    /\ Fresh
    /\ \E replies \in [1..(1 + MaxCids) -> ServerReplies] :
           /\ inp' = Invocation("server.search_compound", <<"b", "e", "n">>, 0, replies,
                                ServerSearchCompound(replies))
           /\ ret' = ServerSearchCompound(replies)
           /\ UNCHANGED stepVars

InvokePkgDetails ==
    /\ Fresh
    /\ \E r \in ServerReplies :
           /\ inp' = Invocation("get_compound_details", <<"2", "4", "1">>, 0, <<r>>,
                                PkgGetCompoundDetails(r))
           /\ ret' = PkgGetCompoundDetails(r)
           /\ UNCHANGED stepVars

InvokeSubstanceDetails ==
    /\ Fresh
    /\ \E sid \in Sids, r \in ServerReplies :
           /\ inp' = Invocation("get_substance_details", sid, 0, <<r>>,
                                SubstanceDetails(sid, r))
           /\ ret' = SubstanceDetails(sid, r)
           /\ UNCHANGED stepVars

InvokeSearchByStructure ==
    /\ Fresh
    /\ \E kind \in Kinds, notation \in Notations,
          replies \in [1..2 -> ServerReplies] :
           /\ inp' = Invocation(ToolOf(kind), notation, 0, replies,
                                SearchByStructure(kind, notation, replies))
           /\ ret' = SearchByStructure(kind, notation, replies)
           /\ UNCHANGED stepVars

InvokePkgSearchBySmiles ==
    /\ Fresh
    /\ \E replies \in [1..2 -> ServerReplies] :
           /\ inp' = Invocation("pkg.search_compound_by_smiles", <<"C", "(">>, 0, replies,
                                PkgSearchBySmiles(replies))
           /\ ret' = PkgSearchBySmiles(replies)
           /\ UNCHANGED stepVars

InvokePkgSearchByInchi ==
    /\ Fresh
    /\ \E r \in ServerReplies :
           /\ inp' = Invocation("pkg.search_compound_by_inchi", <<"C", "(">>, 0, <<r>>,
                                PkgSearchByInchi(r))
           /\ ret' = PkgSearchByInchi(r)
           /\ UNCHANGED stepVars

InvokePkgSynonyms ==
    /\ Fresh
    /\ \E cid \in SynonymCids, max_synonyms \in Limits, r \in SynonymReplies :
           /\ inp' = Invocation("get_compound_synonyms", cid, max_synonyms, <<r>>,
                                PkgGetCompoundSynonyms(cid, max_synonyms, r))
           /\ ret' = PkgGetCompoundSynonyms(cid, max_synonyms, r)
           /\ UNCHANGED stepVars

InvokeServerSynonyms ==
    /\ Fresh
    /\ \E cid \in SynonymCids, max_results \in Limits,
          replies \in [1..2 -> SynonymReplies] :
           /\ inp' = Invocation("server.get_compound_synonyms", cid, max_results,
                                replies,
                                ServerGetCompoundSynonyms(cid, max_results, replies))
           /\ ret' = ServerGetCompoundSynonyms(cid, max_results, replies)
           /\ UNCHANGED stepVars

InvokePkgSmiles ==
    /\ Fresh
    /\ \E r \in ServerReplies :
           /\ inp' = Invocation("get_compound_smiles", <<"2", "4", "1">>, 0, <<r>>,
                                PkgGetCompoundSmiles(r))
           /\ ret' = PkgGetCompoundSmiles(r)
           /\ UNCHANGED stepVars

InvokePkgXrefs ==
    /\ Fresh
    /\ \E kind \in XrefKinds, cid \in SynonymCids, max_results \in Limits,
          r \in SynonymReplies :
           /\ inp' = Invocation(XrefTool(kind), cid, max_results, <<r>>,
                                PkgGetCompoundXrefs(kind, cid, max_results, r))
           /\ ret' = PkgGetCompoundXrefs(kind, cid, max_results, r)
           /\ UNCHANGED stepVars

InvokePkgVendors ==
    /\ Fresh
    /\ \E cid \in SynonymCids, max_vendors \in Limits,
          replies \in [1..Len(Vendors) -> VendorReplies] :
           /\ inp' = Invocation("get_compound_vendors", cid, max_vendors, replies,
                                PkgGetCompoundVendors(cid, max_vendors, replies))
           /\ ret' = PkgGetCompoundVendors(cid, max_vendors, replies)
           /\ UNCHANGED stepVars

InvokePkgConformers ==
    /\ Fresh
    /\ \E cid \in SynonymCids, max_conformers \in Limits, r \in SynonymReplies :
           /\ inp' = Invocation("get_compound_conformers", cid, max_conformers, <<r>>,
                                PkgGetCompoundConformers(cid, max_conformers, r))
           /\ ret' = PkgGetCompoundConformers(cid, max_conformers, r)
           /\ UNCHANGED stepVars

InvokeDetailsConformers ==
    /\ Fresh
    /\ \E cid \in SynonymCids, max_conformers \in Limits,
          replies \in [1..2 -> ServerReplies] :
           /\ inp' = Invocation("details.get_compound_conformers", cid,
                                max_conformers, replies,
                                DetailsGetCompoundConformers(cid, max_conformers, replies))
           /\ ret' = DetailsGetCompoundConformers(cid, max_conformers, replies)
           /\ UNCHANGED stepVars

InvokeSimilarByCid ==
    /\ Fresh
    /\ \E cid \in SynonymCids, threshold \in Thresholds,
          max_results \in 0..MaxSynonyms, self \in 0..MaxSynonyms,
          r1 \in VendorReplies, r2 \in SynonymReplies :
           LET answer == SearchSimilarByCid(cid, threshold, max_results, self,
                                            <<r1, r2>>)
           IN  /\ inp' = [Invocation("search_similar_compounds_by_cid", cid,
                                     max_results, <<r1, r2>>, answer)
                             EXCEPT !.threshold = threshold, !.self = self]
               /\ ret' = answer
               /\ UNCHANGED stepVars

InvokeSimilarBySmiles ==
    /\ Fresh
    /\ \E smiles \in {AspirinSmiles, <<"CCO">>}, threshold \in Thresholds,
          max_results \in 0..MaxSynonyms, r \in SynonymReplies :
           LET answer == SearchSimilarBySmiles(smiles, threshold, max_results, r)
           IN  /\ inp' = [Invocation("search_similar_compounds_by_smiles", smiles,
                                     max_results, <<r>>, answer)
                             EXCEPT !.threshold = threshold]
               /\ ret' = answer
               /\ UNCHANGED stepVars

NextHandlers ==
    \/ InvokeServerDetails
    \/ InvokeServerSearch
    \/ InvokePkgDetails
    \/ InvokeSubstanceDetails
    \/ InvokeSearchByStructure
    \/ InvokePkgSearchBySmiles
    \/ InvokePkgSearchByInchi
    \/ InvokePkgSynonyms
    \/ InvokeServerSynonyms
    \/ InvokePkgSmiles
    \/ InvokePkgXrefs
    \/ InvokePkgVendors
    \/ InvokePkgConformers
    \/ InvokeDetailsConformers
    \/ InvokeSimilarByCid
    \/ InvokeSimilarBySmiles

SpecHandlers == Init /\ [][NextHandlers]_vars

\* ---- construction with any rate ----

\* the rates a caller may hand to RateLimiter(calls_per_second) or to
\* PubChemClient(rate_limit): nothing in either __init__ checks the sign
ConfigRates == {0 - 1, 0, 1}

\* self.min_interval = 1.0 / calls_per_second: a negative rate gives a
\* negative interval, a zero rate raises ZeroDivisionError
Constructed(cps) == cps # 0
IntervalOf(cps) ==
    IF cps > 0 THEN MinIntervalOf(cps)
    ELSE IF cps < 0 THEN 0 - MinIntervalOf(0 - cps)
    ELSE 0

\* PubChemClient(rate_limit) has run: the client exists, or the division
\* raised out of the constructor and there is nothing to call
InitConfig ==
    /\ now = 0
    /\ calls_per_second \in ConfigRates
    /\ min_interval = IntervalOf(calls_per_second)
    /\ ret = IF Constructed(calls_per_second) THEN NoReturn
             ELSE Raises("ZeroDivisionError", 0)
    /\ inp = NoCall
    /\ last_call_time = 0
    /\ lock = Unlocked
    /\ cache = <<>>
    /\ pc = [c \in Tasks |-> "idle"]
    /\ entry = [c \in Tasks |-> None]
    /\ req = [c \in Tasks |-> NoReq]
    /\ wakeAt = [c \in Tasks |-> 0]
    /\ stampAt = [c \in Tasks |-> 0]
    /\ nAcq = [c \in Tasks |-> 0]
    /\ nGet = [c \in Tasks |-> 0]
    /\ hit = [c \in Tasks |-> FALSE]
    /\ result = [c \in Tasks |-> NoResult]
    /\ stamps = <<>>
    /\ wire = [n |-> 0, t |-> 0, prev |-> 0, via |-> None]
    /\ serial = 0
    /\ calls = 0
    /\ stage = [c \in Tasks |-> None]
    /\ held = [c \in Tasks |-> NoList]
    /\ todo = [c \in Tasks |-> 0]
    /\ found = [c \in Tasks |-> 0]
    /\ out = [c \in Tasks |-> NoOut]
    /\ reply = [c \in Tasks |-> NoReply]
    /\ sent = {}

\* the calls as far as the limiter: a client that was not constructed
\* takes none
Alive == ret.kind # "raised"

ConfigTick == Alive /\ Tick
ConfigCallGet(c) == Alive /\ CallGet(c)
ConfigLockAcquired(c) == Alive /\ LockAcquired(c)
ConfigWake(c) == Alive /\ Wake(c)

NextConfig ==
    \/ ConfigTick
    \/ \E c \in Tasks : ConfigCallGet(c)
    \/ \E c \in Tasks : ConfigLockAcquired(c)
    \/ \E c \in Tasks : ConfigWake(c)

SpecConfig == InitConfig /\ [][NextConfig]_vars

\* ---- the limiter under cancellation, on a clock that keeps advancing ----

\* the clock goes on while a sleeper has still to be woken
LiveTick ==
    /\ UNCHANGED fnVars
    /\ now < MaxTime \/ \E c \in Tasks : pc[c] = "sleep" /\ now < wakeAt[c]
    /\ now' = now + 1
    /\ UNCHANGED <<calls_per_second, min_interval, last_call_time, lock, cache,
                   pc, entry, req, wakeAt, stampAt, nAcq, nGet, hit, result, stamps,
                   wire, serial, calls, toolVars, sent>>

\* async with self._lock: on the way out the lock is released if task c
\* holds it
Released_Kept(c) == lock
Released(c) == IF lock = c THEN Unlocked ELSE lock

\* the task that runs acquire() is cancelled while it waits for the lock or
\* sleeps under it: CancelledError leaves acquire() and get()
Cancel(c) ==
    /\ UNCHANGED fnVars
    /\ pc[c] \in {"lockwait", "sleep"}
    /\ lock' = Released(c)
    /\ pc' = [pc EXCEPT ![c] = "returned"]
    /\ result' = [result EXCEPT ![c] = Raised("CancelledError")]
    /\ wakeAt' = [wakeAt EXCEPT ![c] = 0]
    /\ UNCHANGED <<now, calls_per_second, min_interval, last_call_time, cache,
                   entry, req, stampAt, nAcq, nGet, hit, stamps, wire, serial,
                   calls, toolVars, sent>>

\* a task calls get for a URL that is not in the cache, and so acquire()
LiveCall(c) ==
    /\ UNCHANGED fnVars
    /\ pc[c] = "idle" \/ (pc[c] = "returned" /\ entry[c] = "get")
    /\ calls < MaxCalls
    /\ calls' = calls + 1
    /\ entry' = [entry EXCEPT ![c] = "get"]
    /\ GetCall(c, "u1", None, 0)
    /\ UNCHANGED <<toolVars, sent>>

NextLive ==
    \/ LiveTick
    \/ \E c \in Tasks : LiveCall(c)
    \/ \E c \in Tasks : LockAcquired(c)
    \/ \E c \in Tasks : Wake(c)
    \/ \E c \in Tasks : Cancel(c)
    \/ \E c \in Tasks : TransportError(c)

\* (the requests made after acquire() fail here at once: what the upstream
\* answers is of no account to the limiter)
\* the event loop runs every task that is ready: the clock advances, a
\* sleeper whose time has come is woken, and asyncio.Lock hands the lock to
\* its waiters in the order they came, so no waiter is passed over for ever
SpecLive ==
    /\ Init
    /\ [][NextLive]_vars
    /\ WF_vars(LiveTick)
    /\ \A c \in Tasks : WF_vars(Wake(c))
    /\ \A c \in Tasks : SF_vars(LockAcquired(c))

\* ---- properties ----

\* task c makes the call that this step starts
Called(c) == calls' = calls + 1 /\ req'[c].id = calls'
\* the positions of a get between its cache miss and its return
Outstanding == {"lockwait", "sleep", "connect", "inflight"}
Failed(r) == r.kind # "response" \/ r.status # 200

\* C1: the successive values written to last_call_time by acquire() are at
\* least min_interval apart, whatever the number of callers and their
\* interleaving.
C1_AcquireSpacing ==
    \A i \in 1..(Len(stamps) - 1) : stamps[i + 1] - stamps[i] >= min_interval

\* three acquires have returned, the third from a caller that had to queue
\* behind the second
C1_Witness ==
    /\ Len(stamps) = 3
    /\ stamps[3] - stamps[2] = min_interval
    /\ \E c, d \in Tasks : c # d /\ pc[c] = "connect" /\ pc[d] = "connect"

\* C2 (as stated): the moments at which two consecutive HTTP GETs are sent
\* by PubChemClient.get are at least min_interval apart.
C2_SendSpacing ==
    wire.n >= 2 => wire.t - wire.prev >= min_interval

\* C2 (amended): the acquire() returns that precede the GETs of two
\* outstanding calls are at least min_interval apart, and a GET is sent only
\* by a call whose acquire() has returned, at or after that return.
C2_StampSpacing ==
    /\ \A c, d \in Tasks :
          (c # d /\ pc[c] \in {"connect", "inflight"}
                 /\ pc[d] \in {"connect", "inflight"}) =>
             \/ stampAt[c] - stampAt[d] >= min_interval
             \/ stampAt[d] - stampAt[c] >= min_interval
    /\ \A c \in Tasks :
          pc[c] \in {"connect", "inflight"} =>
             /\ nAcq[c] = 1
             /\ \E i \in 1..Len(stamps) : stamps[i] = stampAt[c]
             /\ stampAt[c] <= now
             /\ pc[c] = "inflight" => wire.t >= stampAt[c]

\* two calls have their GET on the wire, their acquires properly spaced, and
\* the second GET left less than min_interval after the previous one
C2_Witness ==
    \E c, d \in Tasks :
        /\ pc[c] = "inflight" /\ pc[d] = "inflight"
        /\ stampAt[d] - stampAt[c] >= min_interval
        /\ wire.n = 2
        /\ wire.t - wire.prev < min_interval

\* C3: at most one caller at a time is inside the read-wait-stamp section of
\* acquire(); the sleeping caller holds the lock, and while it sleeps nobody
\* else reads or writes last_call_time.
C3_MutualExclusion ==
    /\ [](\A c, d \in Tasks : (pc[c] = "sleep" /\ pc[d] = "sleep") => c = d)
    /\ [](\A c \in Tasks : pc[c] = "sleep" => lock = c)
    /\ [][\A c \in Tasks :
             (pc[c] = "sleep" /\ pc'[c] = "sleep") =>
                /\ last_call_time' = last_call_time
                /\ stamps' = stamps
                /\ \A d \in Tasks \ {c} :
                      pc'[d] \in {"sleep", "connect"} => pc'[d] = pc[d]]_vars

\* one caller sleeps inside the section while another waits for the lock
C3_Witness ==
    \E c, d \in Tasks : pc[c] = "sleep" /\ pc[d] = "lockwait" /\ now < wakeAt[c]

\* C4: a call that finds a live entry (age < cache_ttl) under its key
\* returns the stored response at once, with no acquire() and no HTTP call,
\* and leaves limiter, cache and wire untouched.
C4_CacheHit ==
    [][\A c \in Tasks :
          (/\ Called(c)
           /\ req'[c].key \in DOMAIN cache
           /\ now - cache[req'[c].key].time < req'[c].ttl) =>
             /\ pc'[c] = "returned"
             /\ result'[c] = cache[req'[c].key].response
             /\ nAcq'[c] = 0 /\ nGet'[c] = 0
             /\ UNCHANGED <<last_call_time, stamps, lock, cache, wire>>]_vars

\* two calls with the same key, the second within ttl of the first
\* succeeding one: one GET on the wire in total, the second call a hit
C4_Witness ==
    \E c \in Tasks :
        /\ calls = 2 /\ req[c].id = 2
        /\ hit[c] /\ pc[c] = "returned"
        /\ result[c].status = 200
        /\ wire.n = 1
        /\ now > cache[req[c].key].time

\* C5: only responses of status 200 are ever in the cache; a fetch that
\* ends with another status or with an exception leaves the cache as it
\* was, and a call that finds no live entry fetches.
C5_NoNegativeCaching ==
    /\ [](\A k \in DOMAIN cache :
             cache[k].response.kind = "response" /\ cache[k].response.status = 200)
    /\ [][\A c \in Tasks :
             (pc[c] \in {"connect", "inflight"} /\ pc'[c] # pc[c]
                 /\ Failed(result'[c])) => cache' = cache]_vars
    /\ [][\A c \in Tasks :
             (Called(c) /\ req'[c].key \notin DOMAIN cache) =>
                 (nAcq'[c] = 1 /\ ~hit'[c] /\ pc'[c] \in Outstanding)]_vars

\* a fetch failed and the same request, repeated, went to the network again
C5_Witness ==
    \E c, d \in Tasks :
        /\ c # d
        /\ pc[c] = "returned" /\ ~hit[c] /\ result[c].status = 404
        /\ req[d].key = req[c].key /\ req[d].url = req[c].url
        /\ req[d].id > req[c].id
        /\ req[d].key \notin DOMAIN cache
        /\ nGet[d] = 1

\* C6: a call that finds an entry of age >= cache_ttl fetches afresh and
\* never returns the expired response; a fresh 200 response replaces the
\* entry, with the new response and the time of its arrival.
C6_ExpiredIsAbsent ==
    /\ [][\A c \in Tasks :
             (/\ Called(c)
              /\ req'[c].key \in DOMAIN cache
              /\ now - cache[req'[c].key].time >= req'[c].ttl) =>
                 (~hit'[c] /\ nAcq'[c] = 1 /\ pc'[c] \in Outstanding)]_vars
    /\ [](\A c \in Tasks :
             (pc[c] = "returned" /\ ~hit[c] /\ req[c].seen > 0) =>
                 result[c].serial # req[c].seen)
    /\ [][\A c \in Tasks :
             (pc[c] = "inflight" /\ pc'[c] = "returned"
                 /\ result'[c].status = 200) =>
                 /\ req[c].key \in DOMAIN cache'
                 /\ cache'[req[c].key] = [time |-> now, response |-> result'[c]]]_vars

\* a call found an expired entry, fetched, and its 200 response replaced it
C6_Witness ==
    \E c \in Tasks :
        /\ pc[c] = "returned" /\ ~hit[c]
        /\ req[c].seen > 0 /\ req[c].ttl > 0
        /\ result[c].status = 200
        /\ cache[req[c].key].response = result[c]
        /\ cache[req[c].key].response.serial > req[c].seen

\* the moves of one call: PENDING (idle, or returned from the previous
\* call), RATE_WAIT (lockwait, sleep), IN_FLIGHT (connect, inflight), DONE
\* (returned)
CallEdges ==
    {<<"idle", "returned">>, <<"idle", "lockwait">>, <<"idle", "sleep">>,
     <<"idle", "connect">>, <<"returned", "lockwait">>, <<"returned", "sleep">>,
     <<"returned", "connect">>, <<"lockwait", "sleep">>, <<"lockwait", "connect">>,
     <<"sleep", "connect">>, <<"connect", "inflight">>, <<"connect", "returned">>,
     <<"inflight", "returned">>}

\* C7: a call is a cache hit that goes straight to its return, or a miss
\* that makes exactly one acquire() and then exactly one client.get and
\* returns; there is never a second acquire or a second GET for a call.
C7_NoRetry ==
    /\ [](\A c \in Tasks :
             /\ nAcq[c] <= 1 /\ nGet[c] <= 1 /\ nGet[c] <= nAcq[c]
             /\ pc[c] = "returned" =>
                   \/ hit[c] /\ nAcq[c] = 0 /\ nGet[c] = 0
                   \/ ~hit[c] /\ nAcq[c] = 1 /\ nGet[c] = 1)
    /\ [][\A c \in Tasks :
             pc'[c] # pc[c] => <<pc[c], pc'[c]>> \in CallEdges]_vars
    /\ [][\A c \in Tasks :
             (pc[c] \in Outstanding /\ ~Called(c)) =>
                 (nAcq'[c] = nAcq[c] /\ nGet'[c] >= nGet[c])]_vars

\* a miss whose single fetch failed has returned
C7_Witness ==
    \E c \in Tasks :
        /\ pc[c] = "returned" /\ ~hit[c]
        /\ Failed(result[c])
        /\ nAcq[c] = 1 /\ nGet[c] = 1

\* C10: two calls with the same key that both miss make one network call
\* each, two in total, and each GET follows an acquire() of its own call.
C10_DuplicateFetch ==
    \A c, d \in Tasks :
        (/\ c # d
         /\ req[c].key = req[d].key
         /\ pc[c] \in {"connect", "inflight"}
         /\ pc[d] \in {"connect", "inflight"}) =>
            /\ nGet[c] + nGet[d] = 2
            /\ nAcq[c] = 1 /\ nAcq[d] = 1
            /\ stampAt[c] # stampAt[d]
            /\ \E i, j \in 1..Len(stamps) :
                  i # j /\ stamps[i] = stampAt[c] /\ stamps[j] = stampAt[d]

\* both calls of a race are on the wire at once: no entry for the key, two
\* GETs for the same request sent
C10_Witness ==
    \E c, d \in Tasks :
        /\ c # d
        /\ req[c].key = req[d].key /\ req[c].url = req[d].url
        /\ req[c].ttl > 0 /\ req[d].ttl > 0
        /\ req[c].key \notin DOMAIN cache
        /\ pc[c] = "inflight" /\ pc[d] = "inflight"
        /\ wire.n = 2

\* C8 (as stated): every failure of an outbound call comes back from the
\* gateway as a returned, tagged error record (the status code for a
\* non-2xx reply, a request error, or an unexpected error); nothing is
\* raised.  The gateway is make_pubchem_request and PubChemClient.get.
C8_TaggedErrors ==
    \A c \in Tasks :
        /\ (entry[c] = "make_pubchem_request" /\ pc[c] = "done") =>
              ~out[c].raised
        /\ (entry[c] # "make_pubchem_request" /\ pc[c] = "returned" /\ ~hit[c]) =>
              /\ ~result[c].raised
              /\ ~IsSuccess(result[c].status) => result[c].kind = "HTTP error: "

\* C8 (amended): make_pubchem_request returns, and never raises, a tagged
\* record for every failure of its GET: "HTTP error: <code>" for a non-2xx
\* reply, "Request error" for an httpx.RequestError, "Unexpected error" for
\* any other exception, a body that is not JSON included.  PubChemClient.get
\* returns the response as it came, whatever its status, and lets an
\* exception of client.get leave it.
C8_RequestErrors ==
    \A c \in Tasks :
        /\ (entry[c] = "make_pubchem_request" /\ pc[c] = "done") =>
              /\ ~out[c].raised
              /\ reply[c].exc = "RequestError" => out[c] = Text("Request error")
              /\ reply[c].exc = "Exception" => out[c] = Text("Unexpected error")
              /\ (reply[c].exc = None /\ ~IsSuccess(reply[c].status)) =>
                    (out[c].text = "HTTP error: " /\ out[c].code = reply[c].status)
              /\ (reply[c].exc = None /\ IsSuccess(reply[c].status)
                     /\ reply[c].body = NotJson) =>
                    out[c] = Text("Unexpected error")
              /\ (reply[c].exc = None /\ IsSuccess(reply[c].status)
                     /\ reply[c].body # NotJson) => out[c] = Text("json")
        /\ (entry[c] # "make_pubchem_request" /\ pc[c] = "returned" /\ ~hit[c]) =>
              /\ result[c].raised => result[c].kind = "RequestError"
              /\ ~result[c].raised =>
                    (result[c].kind = "response" /\ result[c].status \in StatusCodes)

\* make_pubchem_request has turned a failed connection into a record
C8_Witness ==
    \E c \in Tasks :
        /\ entry[c] = "make_pubchem_request" /\ pc[c] = "done"
        /\ reply[c].exc = "RequestError"
        /\ out[c] = Text("Request error")

\* C9: every GET a tool handler sends upstream is sent by
\* PubChemClient.get, after its cache lookup and its acquire(); no handler
\* uses an HTTP client of its own.
C9_SoleGateway ==
    \A s \in sent : s.via = "PubChemClient.get"

\* C11 (as stated): no invocation of a tool handler ends with an exception
\* leaving the handler, whatever the upstream replies; the handlers of
\* mcp_server/server.py index the lists of a 200 body outside any try
C11_NeverRaises ==
    ret.kind # "raised"

\* the handlers that answer with a string
SearchTools == {"search_compound_by_smiles", "search_compound_by_inchi"}
PkgSearchTools ==
    {"pkg.search_compound_by_smiles", "pkg.search_compound_by_inchi"}
SynonymTools == {"get_compound_synonyms", "server.get_compound_synonyms"}
XrefTools == {"get_compound_literature", "get_compound_patents"}
SimilarTools ==
    {"search_similar_compounds_by_cid", "search_similar_compounds_by_smiles"}
ConformerTools ==
    {"get_compound_conformers", "details.get_compound_conformers"}
\* the handlers that ask one request per item of a fixed list and treat a
\* status other than 200 as an item without data
ProbeTools == {"get_compound_vendors"}
StringTools ==
    {"get_compound_details", "get_substance_details", "get_compound_smiles"}
        \cup SearchTools \cup PkgSearchTools \cup SynonymTools \cup XrefTools
        \cup ProbeTools \cup ConformerTools
        \cup SimilarTools
\* the first request of the invocation was answered with this status code
FirstStatus(status_code) ==
    /\ Len(inp.replies) >= 1
    /\ inp.replies[1].exc = None
    /\ inp.replies[1].status = status_code
\* a request of the invocation failed in transport
TransportFailed ==
    \E i \in DOMAIN inp.replies : inp.replies[i].exc # None
\* the invocations for which the package's get_compound_synonyms and
\* get_compound_conformers have a canned answer in their except clause
Canned ==
    /\ inp.tool \in {"get_compound_synonyms", "get_compound_conformers"}
    /\ inp.arg = <<"2244">>

Mentions(text, phrases) == \E i \in 1..Len(text) : text[i] \in phrases
NotFoundPhrases ==
    {"No compounds found matching ", "No substance found with SID",
     "No synonyms found for compound CID ", "No compound found with CID",
     " references found for compound CID ",
     "No vendor information found for compound CID ",
     "No conformer data found for compound CID ",
     "No similar compounds found for "}

UncheckedTools == {"get_compound_details", "get_compound_smiles"}

C14_InvalidNotation ==
    (inp.tool \in SearchTools \cup PkgSearchTools /\ FirstStatus(400)) =>
        /\ ret.kind = "string"
        /\ Mentions(ret.text, {"Invalid "})
        /\ ~Mentions(ret.text, NotFoundPhrases)

\* C14 (amended): on a 400 the structure searches of compounds/search.py
\* return "Invalid <kind> notation: ...", which is not their not-found
\* message; those of pubchem_mcp/__init__.py return the not-found message
\* they return for a 404
C14_BadRequest ==
    FirstStatus(400) =>
        /\ inp.tool \in SearchTools =>
              /\ ret.kind = "string"
              /\ StartsWith(ret.text, <<"Invalid ">>)
              /\ Mentions(ret.text, {" notation"})
              /\ ~Mentions(ret.text, NotFoundPhrases)
        /\ inp.tool \in PkgSearchTools =>
              /\ ret.kind = "string"
              /\ StartsWith(ret.text, <<"No compounds found matching ">>)

C14_Witness ==
    /\ inp.tool = "search_compound_by_inchi"
    /\ FirstStatus(400)
    /\ ret.text = <<"Invalid ", "InChI", " notation", ": ">>

\* the synonyms the upstream has for the CID of the invocation: those of
\* the last reply when it is a 200 with a list, none otherwise
Available ==
    IF inp.replies = <<>> THEN 0
    ELSE LET r == inp.replies[Len(inp.replies)]
         IN  IF r.exc = None /\ r.status = 200 /\ r.body >= 1 THEN r.body ELSE 0

\* C15 (as stated): for every CID, every limit >= 0 and every upstream
\* outcome the synonyms tool lists at most limit entries, and the note
\* "Showing <limit> of <N>" is there exactly when the N available synonyms
\* exceed the limit
C15_SynonymLimit ==
    inp.tool \in SynonymTools =>
        /\ ret.n <= inp.limit
        /\ ret.note <=> Available > inp.limit
        /\ ret.note => ret.shown = inp.limit /\ ret.total = Available

C17_BackToBack ==
    /\ \A n \in 1..Len(stamps) :
          stamps[n] - stamps[1] >= (n - 1) * min_interval
    /\ (calls_per_second = 2 /\ 2 * min_interval = TicksPerSecond
            /\ Len(stamps) >= 3) =>
          stamps[3] - stamps[1] >= TicksPerSecond

\* three acquires at two calls per second, the third exactly one second
\* after the first
C17_Witness ==
    /\ calls_per_second = 2
    /\ 2 * min_interval = TicksPerSecond
    /\ Len(stamps) = 3
    /\ stamps[3] - stamps[1] = TicksPerSecond

\* C18 (as stated): a construction with calls_per_second <= 0 is rejected,
\* and no limiter with a zero or negative rate reaches acquire()
C18_RejectsNonPositive ==
    /\ calls_per_second <= 0 => ret.kind = "raised"
    /\ \A c \in Tasks : nAcq[c] > 0 => calls_per_second > 0

\* C19: no step removes a key from the cache: a lookup that finds an
\* expired entry leaves it where it is, and a store only adds a key or
\* overwrites the entry under its own key
C19_KeysNeverShrink ==
    [][DOMAIN cache \subseteq DOMAIN cache']_vars

\* a lookup found an expired entry, went to the network, and the entry is
\* still in the cache beside another key
C19_Witness ==
    \E c \in Tasks :
        /\ pc[c] \in Outstanding
        /\ req[c].seen # 0
        /\ req[c].key \in DOMAIN cache
        /\ cache[req[c].key].response.serial = req[c].seen
        /\ Cardinality(DOMAIN cache) = 2

\* a request of the invocation was answered 200 with a body that lacks the
\* list the handler reads, or carries it empty
ShapeMismatch ==
    \E i \in DOMAIN inp.replies :
        /\ inp.replies[i].exc = None
        /\ inp.replies[i].status = 200
        /\ inp.replies[i].body \in {NoList, NoInner, 0}

\* C20 (as stated): on a 200 body that lacks an expected key or carries an
\* empty list the tool returns an answer, built from defaults, and neither
\* an error string nor an exception
C20_DegradedAnswer ==
    ShapeMismatch =>
        /\ ret.kind \in {"string", "mapping"}
        /\ ~StartsWith(ret.text, <<"Error">>)

\* C21: get_compound_literature and get_compound_patents list at most
\* max_results entries for every max_results >= 0, on the canned answer for
\* CID 2244 and on the answer built from the upstream's list
C21_XrefLimit ==
    inp.tool \in XrefTools => ret.n <= inp.limit

\* the upstream has more patents than asked for and the list is cut
C21_Witness ==
    /\ inp.tool = "get_compound_patents"
    /\ inp.arg # <<"2244">>
    /\ inp.limit > 0
    /\ Available > inp.limit
    /\ ret.n = inp.limit
    /\ ret.note

\* the vendors with product ids among the first i replies of the invocation
RECURSIVE FoundAmong(_)
FoundAmong(i) ==
    IF i = 0 THEN 0
    ELSE FoundAmong(i - 1) + (IF VendorFound(inp.replies[i]) THEN 1 ELSE 0)

\* C22 (as stated): get_compound_vendors reports at most max_vendors
\* vendors, for every max_vendors >= 0 and every combination of per-vendor
\* outcomes, and a further vendor is asked only while fewer than max_vendors
\* have been found
C22_VendorLimit ==
    inp.tool = "get_compound_vendors" =>
        /\ ret.n <= inp.limit
        /\ \A i \in 1..Len(inp.replies) - 1 : FoundAmong(i) < inp.limit

\* C23 (as stated): get_compound_conformers lists at most max_conformers
\* "Conformer ID:" entries for every CID, every max_conformers >= 0 and
\* every upstream outcome, the built-in data for CID 2244 and the answer
\* given after a transport error included
C23_ConformerLimit ==
    inp.tool \in ConformerTools => ret.n <= inp.limit

\* the task is inside get_compound_details of server.py, a request out
InServerDetails(c) ==
    entry[c] = "server.get_compound_details" /\ pc[c] = "direct"
\* the reply the step hands to task c is an error record
ErrorReply(r) == RequestResult(r.exc, r.status, r.body).text # "json"
WithProperties ==
    {"CID record properties", "CID record properties synonyms"}
WithSynonyms ==
    {"CID record synonyms", "CID record properties synonyms"}

\* C24: the dictionary-returning get_compound_details asks for the record,
\* then the properties, then the synonyms; an error record for the record
\* request is returned at once and nothing more is asked; an error record
\* for the properties or for the synonyms request ends nothing and raises
\* nothing, the merged result just lacks that field
C24_Orchestration ==
    [][\A c \in ToolTasks :
        /\ (InServerDetails(c)' /\ ~InServerDetails(c)) => stage'[c] = "record"
        /\ (InServerDetails(c) /\ stage'[c] # stage[c]) =>
              /\ stage[c] = "record" =>
                    IF ErrorReply(reply'[c])
                    THEN /\ pc'[c] = "done"
                         /\ stage'[c] = None
                         /\ out'[c] = RequestResult(reply'[c].exc,
                                                    reply'[c].status,
                                                    reply'[c].body)
                    ELSE pc'[c] = "direct" /\ stage'[c] = "props"
              /\ stage[c] = "props" =>
                    pc'[c] = "direct" /\ stage'[c] = "synonyms"
              /\ stage[c] = "synonyms" =>
                    /\ pc'[c] = "done"
                    /\ found[c] = NotJson => out'[c].text \notin WithProperties
                    /\ ErrorReply(reply'[c]) => out'[c].text \notin WithSynonyms
                    /\ (found[c] = NotJson /\ ErrorReply(reply'[c])) =>
                          (out'[c].raised => held[c] = 0)
                    /\ ~out'[c].raised =>
                          out'[c].text \in WithProperties \cup WithSynonyms
                                            \cup {"CID record"}
       ]_vars

\* the record came, the properties request ended in an error record, and
\* the handler has gone on to ask for the synonyms
C24_Witness ==
    \E c \in ToolTasks :
        /\ InServerDetails(c)
        /\ stage[c] = "synonyms"
        /\ held[c] >= 1
        /\ found[c] = NotJson
        /\ \E d \in sent : d.caller = "make_pubchem_request"

\* C25 (as stated): in the similar-compound searches the first entry shows
\* 1.0 and no entry shows a higher score than the entry before it, for every
\* threshold in [0, 1] and every max_results
C25_ScoresDescend ==
    inp.tool \in SimilarTools =>
        /\ ret.scores # <<>> => ret.scores[1] = Hundredths
        /\ \A i \in 1..Len(ret.scores) - 1 : ret.scores[i + 1] <= ret.scores[i]

\* the step ends task c's fetch in a failure: a status other than 200, or
\* an exception
FetchFails(c) ==
    /\ pc[c] \in {"connect", "inflight"}
    /\ pc'[c] = "returned"
    /\ result'[c].raised \/ result'[c].status # 200

\* C26: a fetch that ends with a status other than 200 or with an exception
\* leaves the cache as it was, an expired entry under its key included; the
\* limiter's last_call_time was advanced by the attempt before the request
\* went out, and stays so
C26_FailureKeepsCache ==
    [][\A c \in Tasks :
        FetchFails(c) =>
            /\ cache' = cache
            /\ last_call_time' = last_call_time
            /\ \E n \in DOMAIN stamps :
                  stamps[n] = stampAt[c] /\ last_call_time >= stamps[n]
      ]_vars

\* a get found an expired entry under its key, took its turn at the
\* limiter, and the fetch failed: the entry is still there
C26_Witness ==
    \E c \in Tasks :
        /\ pc[c] = "returned"
        /\ ~hit[c]
        /\ result[c].raised \/ result[c].status = 500
        /\ req[c].key \in DOMAIN cache
        /\ cache[req[c].key].response.serial = req[c].seen
        /\ now - cache[req[c].key].time >= req[c].ttl
        /\ req[c].ttl > 0
        /\ last_call_time = stampAt[c]
        /\ last_call_time > cache[req[c].key].time

\* task c is inside acquire(): waiting for the lock, or asleep under it
InAcquire(c) == pc[c] \in {"lockwait", "sleep"}

\* C27: every acquire() comes to an end, by a return or by the cancellation
\* of its task, and whenever a task leaves acquire() it does not hold the
\* lock; nobody holds the lock outside the sleep
C27_AcquireEnds ==
    /\ \A c \in Tasks : InAcquire(c) ~> ~InAcquire(c)
    /\ [][\A c \in Tasks : (InAcquire(c) /\ ~InAcquire(c)') => lock' # c]_vars
    /\ [](\A c \in Tasks : lock = c => pc[c] = "sleep")

\* a task was cancelled in its sleep, the lock is free again and the task
\* that waited for it is through
C27_Witness ==
    \E c, d \in Tasks :
        /\ c # d
        /\ pc[c] = "returned"
        /\ result[c].kind = "CancelledError"
        /\ nAcq[c] = 1 /\ nGet[c] = 0
        /\ pc[d] = "connect"
        /\ lock = Unlocked

\* C28: whether a call is answered from the cache depends on the age of the
\* entry and on the cache_ttl of that call alone: it is iff the entry is
\* there and its age is below the call's cache_ttl; a call with
\* cache_ttl <= 0 is never answered from the cache, and its own 200
\* response is stored all the same
C28_ReaderTtl ==
    /\ [][\A c \in Tasks :
             Called(c) =>
                (hit'[c] <=>
                    /\ req'[c].key \in DOMAIN cache
                    /\ now - cache[req'[c].key].time < req'[c].ttl)]_vars
    /\ [](\A c \in Tasks : hit[c] => req[c].ttl > 0)
    /\ [][\A c \in Tasks :
             (pc[c] = "inflight" /\ req[c].ttl <= 0 /\ ~result'[c].raised
                 /\ result'[c].status = 200) =>
                 /\ req[c].key \in DOMAIN cache'
                 /\ cache'[req[c].key].response = result'[c]]_vars

\* a call with cache_ttl 0 fetched and stored its response, and a later
\* call with a positive cache_ttl was answered with that response
C28_Witness ==
    \E c, d \in Tasks :
        /\ c # d
        /\ req[c].ttl = 0 /\ pc[c] = "returned" /\ ~hit[c]
        /\ result[c].status = 200
        /\ req[d].ttl > 0 /\ req[d].id > req[c].id
        /\ hit[d] /\ result[d] = result[c]

\* C29: the lookup looks at the key alone: a call whose key has a live
\* entry is answered with the stored response, with no acquire() and no
\* request, also when that response was fetched for another URL than the
\* one the call asks for
C29_KeyOnly ==
    /\ [][\A c \in Tasks :
             (/\ Called(c)
              /\ req'[c].key \in DOMAIN cache
              /\ now - cache[req'[c].key].time < req'[c].ttl
              /\ cache[req'[c].key].response.url # req'[c].url) =>
                 /\ hit'[c]
                 /\ pc'[c] = "returned"
                 /\ result'[c].url # req'[c].url
                 /\ result'[c].serial = cache[req'[c].key].response.serial
                 /\ nAcq'[c] = 0
                 /\ wire' = wire]_vars
    /\ [](\A c \in Tasks :
             (pc[c] = "returned" /\ hit[c]) => result[c].serial = req[c].seen)

\* a call for u2 with the explicit key "u1" was answered with the response
\* that an earlier call had fetched for u1; one GET went out in all
C29_Witness ==
    \E c \in Tasks :
        /\ pc[c] = "returned" /\ hit[c]
        /\ req[c].url = "u2" /\ req[c].key = "u1"
        /\ result[c].url = "u1"
        /\ result[c].status = 200
        /\ wire.n = 1

\* C30: every call that completes with status 200 writes the entry of its
\* key when its response arrives, over whatever is there: the entry holds
\* the latest response to arrive for the key and the time of its arrival,
\* also when the calls missed together and their responses arrive in
\* another order than the calls were made; the time stored under a key
\* never decreases
C30_LastWriterWins ==
    /\ [][\A c \in Tasks :
             (pc[c] = "inflight" /\ pc'[c] = "returned"
                 /\ ~result'[c].raised /\ result'[c].status = 200) =>
                 /\ cache'[req[c].key].response.serial = serial'
                 /\ cache'[req[c].key].time = now]_vars
    /\ [](\A c \in Tasks :
             (pc[c] = "returned" /\ ~hit[c] /\ result[c].status = 200) =>
                 /\ cache[req[c].key].response.serial >= result[c].serial
                 /\ cache[req[c].key].response.status = 200)
    /\ [][\A k \in DOMAIN cache :
             k \in DOMAIN cache' => cache'[k].time >= cache[k].time]_vars

\* two calls for the same key missed together; the one made first was
\* answered last, at a later time, and the entry holds its response
C30_Witness ==
    \E c, d \in Tasks :
        /\ c # d
        /\ pc[c] = "returned" /\ pc[d] = "returned"
        /\ ~hit[c] /\ ~hit[d]
        /\ req[c].key = req[d].key
        /\ req[c].seen = 0 /\ req[d].seen = 0
        /\ result[c].status = 200 /\ result[d].status = 200
        /\ req[d].id < req[c].id
        /\ result[d].serial > result[c].serial
        /\ cache[req[d].key].response = result[d]
        /\ cache[req[d].key].time = now /\ now > 0

====
